---- MODULE Spec2Model ----
(***************************************************************************)
(* KpiMapper (orchestrator) and BuildTimeFromQueueSegmentKpiMapper         *)
(* (series assembly) of CI-Dashboard, as a state machine.                  *)
(*                                                                         *)
(* One mapper instance is shared by the calls made on it.  JavaScript runs *)
(* one callback at a time, so the code between two awaits is one action.   *)
(***************************************************************************)
EXTENDS Integers, Sequences, FiniteSets, TLC

VARIABLES
    chartFromDate,  \* KpiMapper.chartFromDate, a field of the instance
    chartToDate,    \* KpiMapper.chartToDate, a field of the instance
    call,           \* the GetKpiStateOrNull calls: position, locals, outcome
    issued,         \* the requests dataStorage.Query has received, in order
    disc,           \* the GetStartDate / GetEndDate calls
    logged          \* the calls Log has received, in order

vars == <<chartFromDate, chartToDate, call, issued, disc, logged>>

----------------------------------------------------------------------------
(* Bounds of the model *)

MaxDay == 3           \* calendar days a caller may ask for: 1..MaxDay
MaxOverallRows == 2   \* longest reply to the overall request
MaxGroupedRows == 6   \* longest reply to the grouped request
MaxDateRows == 2      \* longest reply to a start / end date request
MaxBlocks == 3        \* most groups in one reply to the grouped request

(* Constants of the program *)

MinOverallRows == 2     \* jsonArrays[0].length < 2
MinGroupedRows == 6     \* jsonArrays[1].length < 6
MinTraceLineRows == 2   \* jsonArrays[i].length < 2
OverallWidth == 3       \* width of the "Overall" trace line
GroupWidth == 1         \* width of any other trace line
LeadInDays == 2         \* fromDate.subtract(2, "day")
OneResult == 1          \* results.length != 1

----------------------------------------------------------------------------
(* JavaScript values that a row field can hold *)

Undefined == [t |-> "undefined", s |-> "", n |-> 0]
Null == [t |-> "null", s |-> "", n |-> 0]
Str(s) == [t |-> "string", s |-> s, n |-> 0]
Num(n) == [t |-> "number", s |-> "", n |-> n]
DateOf(d) == [t |-> "date", s |-> "", n |-> d]

\* !v
Falsy(v) ==
    \/ v.t \in {"undefined", "null"}
    \/ v.t = "string" /\ v.s = ""
    \/ v.t = "number" /\ v.n = 0

\* A row of a reply; groupByColumn is Undefined when the row has no such field.
Row(date, avg, group) ==
    [DATE |-> date, AVG_BUILD_TIME |-> avg, groupByColumn |-> group]

----------------------------------------------------------------------------
(* traceLines: a JavaScript Array used as a dictionary.                    *)
(* keys are its own string keys in creation order, obj their values.       *)

EmptyArray == [keys |-> <<>>, obj |-> <<>>]

\* Names every Array inherits from Array.prototype and Object.prototype;
\* reading one of an array that has no own property of that name gives a function.
ArrayPrototypeNames ==
    {"constructor", "push", "pop", "map", "filter", "keys", "values", "toString"}

\* The array index a property name stands for, or -1 when it is no array index.
ArrayIndex(name) ==
    CASE name = "7" -> 7
      [] name = "10" -> 10
      [] OTHER -> -1

Range(seq) == {seq[i] : i \in DOMAIN seq}

\* traceLines[name]: an own property, an inherited one, or undefined
Get(array, name) ==
    IF name \in Range(array.keys) THEN "own"
    ELSE IF name \in ArrayPrototypeNames THEN "inherited"
    ELSE "undefined"

\* Plotly.GetTraceLineData(title, x, y, width)
GetTraceLineData(title, x, y, width) ==
    [name |-> title, x |-> x, y |-> y, width |-> width]

\* Plotly.GetDateXAxis(from, to)
GetDateXAxis(from, to) == <<from, to>>

RECURSIVE AscendingIndices(_)
AscendingIndices(names) ==
    IF names = {} THEN <<>>
    ELSE LET least == CHOOSE k \in names :
                          \A j \in names : ArrayIndex(k) <= ArrayIndex(j)
         IN  <<least>> \o AscendingIndices(names \ {least})

IsName(name) == ArrayIndex(name) < 0

\* for (let splitColumn in traceLines): array indices in ascending numeric
\* order, then the other string keys in creation order.
ForIn(array) ==
    AscendingIndices({k \in Range(array.keys) : ArrayIndex(k) >= 0})
        \o SelectSeq(array.keys, IsName)

----------------------------------------------------------------------------
(* mapToKpiStateOrNull *)

\* MapResult with the group name kept in a local: the row is not written.
MapResultNameInLocal(st, i, k) ==
    LET result == st.jsonArrays[i][k]
        key == IF Falsy(result.groupByColumn) THEN "Overall"
               ELSE result.groupByColumn.s
        found == Get(st.traceLines, key)
        width == IF key = "Overall" THEN OverallWidth ELSE GroupWidth
        created ==
            IF found = "undefined"
            THEN [keys |-> Append(st.traceLines.keys, key),
                  obj |-> (key :> GetTraceLineData(key, <<>>, <<>>, width))
                              @@ st.traceLines.obj]
            ELSE st.traceLines
    IN  IF found = "inherited"
        THEN [st EXCEPT !.thrown = TRUE]
        ELSE [traceLines |->
                  [created EXCEPT !.obj[key].x = Append(@, result.DATE),
                                  !.obj[key].y = Append(@, result.AVG_BUILD_TIME)],
              jsonArrays |-> st.jsonArrays,
              thrown |-> FALSE]

\* The body of "for (let result of jsonArrays[i])" for row k of array i.
\* st: the traceLines built so far, the row arrays (written in place), and
\* whether a TypeError has been thrown.
MapResult(st, i, k) ==
    LET result == st.jsonArrays[i][k]
        written == IF Falsy(result.groupByColumn)
                   THEN [result EXCEPT !.groupByColumn = Str("Overall")]
                   ELSE result
        key == written.groupByColumn.s
        arrays == [st.jsonArrays EXCEPT ![i][k] = written]
        found == Get(st.traceLines, key)
        width == IF key = "Overall" THEN OverallWidth ELSE GroupWidth
        created ==
            IF found = "undefined"
            THEN [keys |-> Append(st.traceLines.keys, key),
                  obj |-> (key :> GetTraceLineData(key, <<>>, <<>>, width))
                              @@ st.traceLines.obj]
            ELSE st.traceLines
    IN  IF found = "inherited"
        THEN \* traceLines[key].x is undefined: .push throws a TypeError
             [st EXCEPT !.jsonArrays = arrays, !.thrown = TRUE]
        ELSE [traceLines |->
                  [created EXCEPT !.obj[key].x = Append(@, written.DATE),
                                  !.obj[key].y = Append(@, written.AVG_BUILD_TIME)],
              jsonArrays |-> arrays,
              thrown |-> FALSE]

RECURSIVE ForOfResults(_, _, _)
ForOfResults(st, i, k) ==
    IF st.thrown \/ k > Len(st.jsonArrays[i]) THEN st
    ELSE ForOfResults(MapResult(st, i, k), i, k + 1)

RECURSIVE ForInArrays(_, _)
ForInArrays(st, i) ==
    IF st.thrown \/ i > Len(st.jsonArrays) THEN st
    ELSE IF Len(st.jsonArrays[i]) < MinTraceLineRows
         THEN ForInArrays(st, i + 1)
         ELSE ForInArrays(ForOfResults(st, i, 1), i + 1)

\* Insufficient with "and" for "or": no data only when both replies are short.
InsufficientWhenBothShort(jsonArrays) ==
    /\ Len(jsonArrays[1]) < MinOverallRows
    /\ Len(jsonArrays[2]) < MinGroupedRows

\* if (jsonArrays[0].length < 2 || jsonArrays[1].length < 6) return null;
Insufficient(jsonArrays) ==
    \/ Len(jsonArrays[1]) < MinOverallRows
    \/ Len(jsonArrays[2]) < MinGroupedRows

TraceLinesOf(array) == [j \in DOMAIN ForIn(array) |-> array.obj[ForIn(array)[j]]]

\* The value returned (or the error thrown), and the row arrays as the call
\* leaves them.  from, to: this.chartFromDate, this.chartToDate when it runs.
mapToKpiStateOrNull(jsonArrays, from, to) ==
    IF Insufficient(jsonArrays)
    THEN [kind |-> "null", data |-> <<>>, xaxis |-> <<>>, jsonArrays |-> jsonArrays]
    ELSE LET st == ForInArrays([traceLines |-> EmptyArray,
                                jsonArrays |-> jsonArrays,
                                thrown |-> FALSE], 1)
         IN  IF st.thrown
             THEN [kind |-> "TypeError", data |-> <<>>, xaxis |-> <<>>,
                   jsonArrays |-> st.jsonArrays]
             ELSE [kind |-> "payload",
                   data |-> TraceLinesOf(st.traceLines),
                   xaxis |-> GetDateXAxis(from, to),
                   jsonArrays |-> st.jsonArrays]

----------------------------------------------------------------------------
(* The data store: what dataStorage.Query can answer *)

\* count rows of one group on days 1..count, in date order, no value NULL.
Block(group, count) ==
    [d \in 1..count |-> Row(DateOf(d), Num(d), group)]

\* Values the grouped request's group column can hold.
GroupValues ==
    {Null, Str(""), Str("A"), Str("B"), Str("7"), Str("constructor")}

Injective(f) == \A i, j \in DOMAIN f : f[i] = f[j] => i = j

Max(S) == CHOOSE m \in S : \A x \in S : x <= m

\* A reply of n rows to the grouped request: one block of rows per group
\* (GROUP BY DATE, group: one row per date per group, dates ascending within a
\* group), block b holding the rows of groups[b] and ending at row cuts' b-th
\* element.  The first `suppressed` values of a block are NULL (CASE WHEN
\* COUNT(T2.BUILD_DATE) < minPrevDayData THEN NULL).
GroupedRows(groups, cuts, n, suppressed) ==
    [j \in 1..n |->
        LET before == {c \in cuts : c < j}
            day == IF before = {} THEN j ELSE j - Max(before)
        IN  Row(DateOf(day),
                IF day <= suppressed THEN Null ELSE Num(day),
                groups[Cardinality(before) + 1])]

\* The overall request selects DATE and AVG_BUILD_TIME only: no group field.
OverallReplies ==
    {Block(Undefined, n) : n \in (MinOverallRows - 1)..MaxOverallRows}

\* Replies of one group only, for runs that are about the calls' interleaving.
PlainGroupedReplies ==
    {Block(Str("A"), n) : n \in (MinGroupedRows - 1)..MaxGroupedRows}

StorageErrors == {"ER_CON_COUNT_ERROR", "PROTOCOL_SEQUENCE_TIMEOUT"}

----------------------------------------------------------------------------
(* KpiMapper.GetKpiStateOrNull *)

Calls == {1, 2}
Days == 1..MaxDay

NoDate == [format |-> "undefined", day |-> 0]
\* moment.format(config.dateformat.charts), moment.format(config.dateformat.mysql)
ChartFormat(day) == [format |-> "charts", day |-> day]
MysqlFormat(day) == [format |-> "mysql", day |-> day]

\* KpiMapper.GetDateRange
GetDateRange(from, to) == (to - from) + 1

\* getQueryStrings: the overall request, then the grouped one
getQueryStrings(from, to, dateRange) ==
    << [shape |-> "overall", from |-> from, to |-> to, dateRange |-> dateRange],
       [shape |-> "grouped", from |-> from, to |-> to, dateRange |-> dateRange] >>

NoResult == [kind |-> "none", data |-> <<>>, xaxis |-> <<>>, error |-> ""]

Idle ==
    [pc |-> "idle", from |-> 0, to |-> 0, sqls |-> <<>>,
     jsonArrayResults |-> <<>>, replied |-> <<>>, storeError |-> "",
     result |-> NoResult]

\* The call up to its first await: the fields are set, the requests built and
\* the first one sent.
GetKpiStateOrNull(c, from, to) ==
    /\ call[c].pc = "idle"
    /\ chartFromDate' = ChartFormat(from)
    /\ chartToDate' = ChartFormat(to)
    /\ LET sqls == getQueryStrings(MysqlFormat(from - LeadInDays), MysqlFormat(to),
                                   GetDateRange(from, to))
       IN  /\ call' = [call EXCEPT ![c] =
                          [Idle EXCEPT !.pc = "await", !.from = from, !.to = to,
                                       !.sqls = sqls]]
           /\ issued' = Append(issued, [by |-> c, sql |-> sqls[1]])
    /\ UNCHANGED <<disc, logged>>

\* The request call c is waiting on.
Awaited(c) == call[c].sqls[Len(call[c].jsonArrayResults) + 1]

\* Call c is waiting on the request of this shape.
Awaits(c, shape) ==
    /\ call[c].pc = "await"
    /\ Awaited(c).shape = shape

\* The call after its request is answered, up to its next await or its return.
\* rows: the result of the awaited dataStorage.Query.
QueryResolves(c, rows) ==
    /\ call[c].pc = "await"
    /\ LET results == Append(call[c].jsonArrayResults, rows)
           replied == Append(call[c].replied, rows)
       IN  IF Len(results) < Len(call[c].sqls)
           THEN /\ call' = [call EXCEPT ![c].jsonArrayResults = results,
                                        ![c].replied = replied]
                /\ issued' = Append(issued,
                                    [by |-> c, sql |-> call[c].sqls[Len(results) + 1]])
           ELSE LET m == mapToKpiStateOrNull(results, chartFromDate, chartToDate)
                IN  /\ call' = [call EXCEPT
                           ![c].pc = IF m.kind = "TypeError" THEN "thrown" ELSE "returned",
                           ![c].jsonArrayResults = m.jsonArrays,
                           ![c].replied = replied,
                           ![c].result = [kind |-> m.kind, data |-> m.data,
                                          xaxis |-> m.xaxis,
                                          error |-> IF m.kind = "TypeError"
                                                    THEN "TypeError" ELSE ""]]
                    /\ issued' = issued
    /\ UNCHANGED <<chartFromDate, chartToDate, disc, logged>>

\* QueryRejects with the error swallowed: catch (err) { return null; }
QueryRejectsReturnsNull(c, err) ==
    /\ call[c].pc = "await"
    /\ call' = [call EXCEPT ![c].pc = "returned",
                            ![c].storeError = err,
                            ![c].result = [NoResult EXCEPT !.kind = "null"]]
    /\ UNCHANGED <<chartFromDate, chartToDate, issued, disc, logged>>

\* The awaited dataStorage.Query fails with err: catch (err) { throw err; }
QueryRejects(c, err) ==
    /\ call[c].pc = "await"
    /\ call' = [call EXCEPT ![c].pc = "thrown",
                            ![c].storeError = err,
                            ![c].result = [NoResult EXCEPT !.kind = "StorageError",
                                                           !.error = err]]
    /\ UNCHANGED <<chartFromDate, chartToDate, issued, disc, logged>>

----------------------------------------------------------------------------
(* KpiMapper.GetStartDate, KpiMapper.GetEndDate *)

Discoveries == {"start", "end"}

\* getStartDateQuery(), getEndDateQuery()
getStartDateQuery == [shape |-> "MIN(BUILD_COMPLETED_DATE)"]
getEndDateQuery == [shape |-> "MAX(BUILD_COMPLETED_DATE)"]
DateQuery(k) == IF k = "start" THEN getStartDateQuery ELSE getEndDateQuery

\* What a row's DATE can be: no such field, NULL, a date.
DateValues == {Undefined, Null} \cup {DateOf(d) : d \in Days}

\* n rows; the code reads the first row only, so the rows are alike.
DateReplies ==
    {[j \in 1..n |-> [DATE |-> v]] : n \in 0..MaxDateRows, v \in DateValues}

\* Log(err, context) either records the error or fails itself.
LogOutcomes == {"recorded", "throws"}

NoError == [kind |-> "", of |-> "", message |-> ""]
OneResultError(k) ==
    [kind |-> "Error", of |-> k, message |-> "query must return only 1 result."]
DateColumnError(k) ==
    [kind |-> "Error", of |-> k, message |-> "query must return a DATE column."]
StorageError(k, err) == [kind |-> "StorageError", of |-> k, message |-> err]
LogError(k) == [kind |-> "LogError", of |-> k, message |-> "Log failed"]

IdleDiscovery ==
    [pc |-> "idle", results |-> <<>>, value |-> Undefined, error |-> NoError,
     console |-> 0]

\* The call up to its await: the query is built and sent.
GetDate(k) ==
    /\ disc[k].pc = "idle"
    /\ disc' = [disc EXCEPT ![k].pc = "await"]
    /\ issued' = Append(issued, [by |-> k, sql |-> DateQuery(k)])
    /\ UNCHANGED <<chartFromDate, chartToDate, call, logged>>

GetStartDate == GetDate("start")
GetEndDate == GetDate("end")

\* console.log(..); var err = new Error(..); Log(err, `query: ${query}`); throw err;
\* The error that leaves the call is err, unless Log throws first.
LogAndThrow(k, results, err, log) ==
    /\ logged' = Append(logged, [by |-> k, err |-> err, context |-> DateQuery(k)])
    /\ disc' = [disc EXCEPT ![k].pc = "thrown",
                            ![k].results = results,
                            ![k].console = @ + 1,
                            ![k].error = IF log = "throws" THEN LogError(k) ELSE err]

\* DateResolves with "results.length == 0" for "results.length != 1".
DateResolvesAnyRows(k, results, log) ==
    /\ disc[k].pc = "await"
    /\ IF Len(results) = 0
       THEN LogAndThrow(k, results, OneResultError(k), log)
       ELSE IF Falsy(results[1].DATE)
       THEN LogAndThrow(k, results, DateColumnError(k), log)
       ELSE /\ disc' = [disc EXCEPT ![k].pc = "returned",
                                    ![k].results = results,
                                    ![k].value = DateOf(results[1].DATE.n)]
            /\ logged' = logged
    /\ UNCHANGED <<chartFromDate, chartToDate, call, issued>>

\* The call after its query is answered with results.  new Date(date) is a
\* date of the same day.
DateResolves(k, results, log) ==
    /\ disc[k].pc = "await"
    /\ IF Len(results) # OneResult
       THEN LogAndThrow(k, results, OneResultError(k), log)
       ELSE IF Falsy(results[1].DATE)
       THEN LogAndThrow(k, results, DateColumnError(k), log)
       ELSE /\ disc' = [disc EXCEPT ![k].pc = "returned",
                                    ![k].results = results,
                                    ![k].value = DateOf(results[1].DATE.n)]
            /\ logged' = logged
    /\ UNCHANGED <<chartFromDate, chartToDate, call, issued>>

\* The query fails with err: catch (err) { throw err; }
DateRejects(k, err) ==
    /\ disc[k].pc = "await"
    /\ disc' = [disc EXCEPT ![k].pc = "thrown", ![k].error = StorageError(k, err)]
    /\ UNCHANGED <<chartFromDate, chartToDate, call, issued, logged>>

----------------------------------------------------------------------------
(* Specifications *)

Init ==
    /\ chartFromDate = NoDate
    /\ chartToDate = NoDate
    /\ call = [c \in Calls |-> Idle]
    /\ issued = <<>>
    /\ disc = [k \in Discoveries |-> IdleDiscovery]
    /\ logged = <<>>

\* Two callers of one mapper, their calls interleaving at the awaits; the
\* grouped replies are rows of one group.
Next ==
    \E c \in Calls :
        \/ \E from \in Days : \E to \in from..MaxDay : GetKpiStateOrNull(c, from, to)
        \/ /\ Awaits(c, "overall")
           /\ \E rows \in OverallReplies : QueryResolves(c, rows)
        \/ /\ Awaits(c, "grouped")
           /\ \E rows \in PlainGroupedReplies : QueryResolves(c, rows)
        \/ \E err \in StorageErrors : QueryRejects(c, err)

Spec == Init /\ [][Next]_vars

\* One call; the grouped reply is any of up to MaxBlocks blocks, in any order
\* (the collation that sorts the group column is the data store's).
NextMap ==
    \/ GetKpiStateOrNull(1, 1, 1)
    \/ /\ Awaits(1, "overall")
       /\ \E rows \in OverallReplies : QueryResolves(1, rows)
    \/ /\ Awaits(1, "grouped")
       /\ \E n \in (MinGroupedRows - 1)..MaxGroupedRows : \E k \in 1..MaxBlocks :
              \E groups \in [1..k -> GroupValues] : \E cuts \in SUBSET (1..(n - 1)) :
                  \E suppressed \in {0, 1} :
                      /\ Injective(groups)
                      /\ Cardinality(cuts) = k - 1
                      /\ QueryResolves(1, GroupedRows(groups, cuts, n, suppressed))
    \/ \E err \in StorageErrors : QueryRejects(1, err)

SpecMap == Init /\ [][NextMap]_vars

\* The two date discoveries of one mapper, interleaving at the awaits.
NextDate ==
    \/ GetStartDate
    \/ GetEndDate
    \/ \E k \in Discoveries :
           \/ \E results \in DateReplies : \E log \in LogOutcomes :
                  DateResolves(k, results, log)
           \/ \E err \in StorageErrors : DateRejects(k, err)

SpecDate == Init /\ [][NextDate]_vars

----------------------------------------------------------------------------
(* What the properties below speak of *)

\* Call c got both replies and ran the assembly.
Assembled(c) ==
    /\ call[c].pc \in {"returned", "thrown"}
    /\ call[c].storeError = ""

\* Both replies are long enough for a chart.
Sufficient(c) ==
    /\ Len(call[c].replied[1]) >= 2
    /\ Len(call[c].replied[2]) >= 6

\* The rows call c was given, overall rows first, as the data store sent them.
RowsGiven(c) == call[c].replied[1] \o call[c].replied[2]

\* The group a row belongs to: "Overall" when its group field is absent, null
\* or empty, else the field's value.
GroupOf(row) ==
    IF row.groupByColumn \in {Undefined, Null, Str("")}
    THEN "Overall"
    ELSE row.groupByColumn.s

\* The groups of rows in first-sighting order.
RECURSIVE FirstSighted(_)
FirstSighted(rows) ==
    IF rows = <<>> THEN <<>>
    ELSE LET before == FirstSighted(SubSeq(rows, 1, Len(rows) - 1))
             g == GroupOf(rows[Len(rows)])
         IN  IF g \in Range(before) THEN before ELSE Append(before, g)

\* The rows of group g, in the order given.
RowsOfGroup(rows, g) == SelectSeq(rows, LAMBDA r : GroupOf(r) = g)

SeriesNames(c) == [j \in DOMAIN call[c].result.data |-> call[c].result.data[j].name]

RECURSIVE SumOf(_, _)
SumOf(f, S) ==
    IF S = {} THEN 0
    ELSE LET x == CHOOSE y \in S : TRUE IN f[x] + SumOf(f, S \ {x})

\* The requests call (or discovery) c has sent, in order.
IssuedBy(c) == SelectSeq(issued, LAMBDA q : q.by = c)
LoggedBy(k) == SelectSeq(logged, LAMBDA l : l.by = k)

----------------------------------------------------------------------------
(* C1: Sufficiency gate.  When the overall reply has fewer than 2 rows or   *)
(* the grouped reply fewer than 6, the call returns null, with no trace line *)
(* and every row as the data store sent it; a payload is returned only when *)
(* the overall reply has at least 2 rows and the grouped one at least 6.    *)
SufficiencyGate ==
    \A c \in Calls :
        Assembled(c) =>
            /\ (Len(call[c].replied[1]) < 2 \/ Len(call[c].replied[2]) < 6)
                   => /\ call[c].pc = "returned"
                      /\ call[c].result.kind = "null"
                      /\ call[c].result.data = <<>>
                      /\ call[c].jsonArrayResults = call[c].replied
            /\ call[c].result.kind = "payload"
                   => /\ Len(call[c].replied[1]) >= 2
                      /\ Len(call[c].replied[2]) >= 6

\* Enough overall rows, one grouped row too few: null.
GateWitness ==
    \E c \in Calls :
        /\ Assembled(c)
        /\ Len(call[c].replied[1]) = 2
        /\ Len(call[c].replied[2]) = 5
        /\ call[c].result.kind = "null"

----------------------------------------------------------------------------
(* C2: Concurrent calls are isolated.  The payload a call returns has the   *)
(* x-axis bounds of that call's own (from, to).                             *)
OwnAxisBounds ==
    \A c \in Calls :
        call[c].result.kind = "payload"
            => call[c].result.xaxis =
                   <<ChartFormat(call[c].from), ChartFormat(call[c].to)>>

----------------------------------------------------------------------------
(* C3: A data-store failure is never downgraded to NoData.  A call whose    *)
(* query failed has thrown that same error, has sent no request after the   *)
(* failed one, has sent no request twice and has not run the assembly; a    *)
(* call returns null only when both queries succeeded and a reply was too   *)
(* short.                                                                   *)
FailurePropagates ==
    \A c \in Calls :
        /\ call[c].storeError # ""
               => /\ call[c].pc = "thrown"
                  /\ call[c].result.kind = "StorageError"
                  /\ call[c].result.error = call[c].storeError
                  /\ call[c].result.data = <<>>
                  /\ call[c].jsonArrayResults = call[c].replied
                  /\ Len(IssuedBy(c)) = Len(call[c].replied) + 1
        /\ \A j \in DOMAIN IssuedBy(c) : IssuedBy(c)[j].sql = call[c].sqls[j]
        /\ Len(IssuedBy(c)) <= 2
        /\ call[c].result.kind = "null"
               => /\ call[c].storeError = ""
                  /\ Len(call[c].replied) = 2
                  /\ (Len(call[c].replied[1]) < 2 \/ Len(call[c].replied[2]) < 6)

\* The grouped query fails after the overall one was answered.
FailureWitness ==
    \E c \in Calls :
        /\ call[c].storeError # ""
        /\ call[c].pc = "thrown"
        /\ Len(call[c].replied) = 1

----------------------------------------------------------------------------
(* C4: Series order.  The names of the payload's series are in the order in *)
(* which the groups are first sighted, overall rows first.                  *)
SeriesInSightingOrder ==
    \A c \in Calls :
        call[c].result.kind = "payload"
            => SeriesNames(c) = FirstSighted(RowsGiven(c))

\* The same, of the inputs none of whose group names is an array index: holds.
NamedSeriesInSightingOrder ==
    \A c \in Calls :
        (/\ call[c].result.kind = "payload"
         /\ \A g \in Range(FirstSighted(RowsGiven(c))) : ArrayIndex(g) < 0)
            => SeriesNames(c) = FirstSighted(RowsGiven(c))

----------------------------------------------------------------------------
(* C5: Series set.  Every input that passes the gate yields a payload with  *)
(* exactly one series per distinct group of its rows, "Overall" of width 3  *)
(* and every other of width 1.                                              *)
OneSeriesPerGroup ==
    \A c \in Calls :
        (Assembled(c) /\ Sufficient(c))
            => /\ call[c].result.kind = "payload"
               /\ Range(SeriesNames(c)) = Range(FirstSighted(RowsGiven(c)))
               /\ Injective(SeriesNames(c))
               /\ \A j \in DOMAIN call[c].result.data :
                      call[c].result.data[j].width =
                          IF call[c].result.data[j].name = "Overall" THEN 3 ELSE 1

\* The same, of the calls that return a payload: holds.
OneSeriesPerGroupReturned ==
    \A c \in Calls :
        call[c].result.kind = "payload"
            => /\ Range(SeriesNames(c)) = Range(FirstSighted(RowsGiven(c)))
               /\ Injective(SeriesNames(c))
               /\ \A j \in DOMAIN call[c].result.data :
                      call[c].result.data[j].width =
                          IF call[c].result.data[j].name = "Overall" THEN 3 ELSE 1

----------------------------------------------------------------------------
(* C6: Point conservation.  Every input that passes the gate yields a       *)
(* payload in which each series holds the dates and the values (null kept)  *)
(* of the rows of its group, in the order given, so that the x and y of a   *)
(* series are equally long and the points are as many as the rows.          *)
PointsOf(c, j) ==
    LET rows == RowsOfGroup(RowsGiven(c), call[c].result.data[j].name)
    IN  /\ call[c].result.data[j].x = [i \in DOMAIN rows |-> rows[i].DATE]
        /\ call[c].result.data[j].y = [i \in DOMAIN rows |-> rows[i].AVG_BUILD_TIME]
        /\ Len(call[c].result.data[j].x) = Len(call[c].result.data[j].y)

PointCount(c) ==
    SumOf([j \in DOMAIN call[c].result.data |-> Len(call[c].result.data[j].x)],
          DOMAIN call[c].result.data)

PointsConserved ==
    \A c \in Calls :
        (Assembled(c) /\ Sufficient(c))
            => /\ call[c].result.kind = "payload"
               /\ \A j \in DOMAIN call[c].result.data : PointsOf(c, j)
               /\ PointCount(c) = Len(RowsGiven(c))

\* The same, of the calls that return a payload: holds.
PointsConservedReturned ==
    \A c \in Calls :
        call[c].result.kind = "payload"
            => /\ \A j \in DOMAIN call[c].result.data : PointsOf(c, j)
               /\ PointCount(c) = Len(RowsGiven(c))

----------------------------------------------------------------------------
(* C7: Date discovery.  Each discovery sends exactly one query.  Answered   *)
(* with 0 rows, with 2 or more rows, or with 1 row whose DATE is absent or  *)
(* null, it fails and Log has been called exactly once for it; answered     *)
(* with 1 row whose DATE is a date, it returns that date and Log has not    *)
(* been called for it.                                                      *)
Malformed(results) ==
    \/ Len(results) = 0
    \/ Len(results) >= 2
    \/ Len(results) = 1 /\ results[1].DATE \in {Undefined, Null}

DateDiscovery ==
    \A k \in Discoveries :
        /\ Len(IssuedBy(k)) = IF disc[k].pc = "idle" THEN 0 ELSE 1
        /\ \A j \in DOMAIN IssuedBy(k) : IssuedBy(k)[j].sql = DateQuery(k)
        /\ (disc[k].pc \in {"returned", "thrown"} /\ disc[k].error.kind # "StorageError")
               => IF Malformed(disc[k].results)
                  THEN /\ disc[k].pc = "thrown"
                       /\ Len(LoggedBy(k)) = 1
                  ELSE /\ disc[k].pc = "returned"
                       /\ disc[k].value = disc[k].results[1].DATE
                       /\ Len(LoggedBy(k)) = 0
        /\ disc[k].pc \in {"idle", "await"} => Len(LoggedBy(k)) = 0

\* A discovery answered with two rows has failed and was logged once.
DateDiscoveryWitness ==
    \E k \in Discoveries :
        /\ disc[k].pc = "thrown"
        /\ Len(disc[k].results) = 2
        /\ Len(LoggedBy(k)) = 1

----------------------------------------------------------------------------
(* C8: Logging cannot mask the failure.  A discovery that failed on a       *)
(* malformed result throws the error it handed to Log, whether or not Log   *)
(* itself failed.                                                           *)
LoggingDoesNotMask ==
    \A k \in Discoveries :
        (disc[k].pc = "thrown" /\ Len(LoggedBy(k)) > 0)
            => disc[k].error = LoggedBy(k)[1].err

----------------------------------------------------------------------------
(* C9: Raw rows are read-only.  After the assembly every row is as the data *)
(* store sent it.                                                           *)
RowsUntouched ==
    \A c \in Calls :
        Assembled(c) => call[c].jsonArrayResults = call[c].replied

(* C9, amended: the assembly changes no row's DATE or value and no group    *)
(* field that holds a name; it writes "Overall" into the group field of the *)
(* rows it reads whose group field is absent, null or empty: of all such    *)
(* rows when it returns a payload, of none when it returns null.            *)
RowAsWritten(before, after) ==
    /\ after.DATE = before.DATE
    /\ after.AVG_BUILD_TIME = before.AVG_BUILD_TIME
    /\ \/ after.groupByColumn = before.groupByColumn
       \/ /\ before.groupByColumn \in {Undefined, Null, Str("")}
          /\ after.groupByColumn = Str("Overall")

OnlyGroupFieldWritten ==
    \A c \in Calls :
        Assembled(c) =>
            /\ Len(call[c].jsonArrayResults) = Len(call[c].replied)
            /\ \A i \in DOMAIN call[c].replied :
                   /\ Len(call[c].jsonArrayResults[i]) = Len(call[c].replied[i])
                   /\ \A j \in DOMAIN call[c].replied[i] :
                          /\ RowAsWritten(call[c].replied[i][j],
                                          call[c].jsonArrayResults[i][j])
                          /\ call[c].result.kind = "payload"
                                 => call[c].jsonArrayResults[i][j].groupByColumn
                                        = Str(GroupOf(call[c].replied[i][j]))
                          /\ call[c].result.kind = "null"
                                 => call[c].jsonArrayResults[i][j]
                                        = call[c].replied[i][j]

\* A payload from a grouped reply with a NULL group: that row now says "Overall".
RowWrittenWitness ==
    \E c \in Calls :
        /\ call[c].result.kind = "payload"
        /\ \E j \in DOMAIN call[c].replied[2] :
               /\ call[c].replied[2][j].groupByColumn = Null
               /\ call[c].jsonArrayResults[2][j].groupByColumn = Str("Overall")

----------------------------------------------------------------------------
(* C10: Chronological traces.  When the grouped reply is in the order its   *)
(* request asks for (group ascending, then date ascending), every series of *)
(* the payload has strictly increasing dates.                               *)

\* ORDER BY group ASC: NULL first, then the strings in ascending order.
GroupRank(v) ==
    CASE v = Undefined -> 0
      [] v = Null -> 0
      [] v = Str("") -> 1
      [] v = Str("7") -> 2
      [] v = Str("A") -> 3
      [] v = Str("B") -> 4
      [] v = Str("constructor") -> 5

InRequestedOrder(rows) ==
    \A i, j \in DOMAIN rows :
        i < j => \/ GroupRank(rows[i].groupByColumn) < GroupRank(rows[j].groupByColumn)
                 \/ /\ rows[i].groupByColumn = rows[j].groupByColumn
                    /\ rows[i].DATE.n < rows[j].DATE.n

Chronological(x) == \A i, j \in DOMAIN x : i < j => x[i].n < x[j].n

ChronologicalTraces ==
    \A c \in Calls :
        (/\ call[c].result.kind = "payload"
         /\ InRequestedOrder(call[c].replied[1])
         /\ InRequestedOrder(call[c].replied[2]))
            => \A j \in DOMAIN call[c].result.data :
                   Chronological(call[c].result.data[j].x)

\* The same, of the series other than "Overall": holds.
ChronologicalGroupTraces ==
    \A c \in Calls :
        (/\ call[c].result.kind = "payload"
         /\ InRequestedOrder(call[c].replied[1])
         /\ InRequestedOrder(call[c].replied[2]))
            => \A j \in DOMAIN call[c].result.data :
                   call[c].result.data[j].name # "Overall"
                       => Chronological(call[c].result.data[j].x)

====
